---- MODULE Spec2Model ----
(***************************************************************************)
(* Model of ia_search.py: the interactive loop of main() (results list,    *)
(* item file list, per-file action menu, download) together with the pure  *)
(* helpers it calls (parse_items, build_file_info, build_file_url).        *)
(*                                                                         *)
(* Text is a sequence of one-character strings, so that strip(), lower(),  *)
(* startswith(), endswith(), "in" and int() are computed as Python         *)
(* computes them.                                                          *)
(***************************************************************************)
EXTENDS Integers, Sequences, FiniteSets, TLC

(***************************************************************************)
(* Bounds of the model.                                                    *)
(***************************************************************************)
\* largest --rows value tried at startup
MaxRows == 2
\* the results page number (args.page) is not increased beyond this
MaxPage == 3

(***************************************************************************)
(* Python values.                                                          *)
(***************************************************************************)
\* Python's None for a text-valued field (no text has a multi-character element)
None == << "<None>" >>
\* Python's None for d.get("downloads")
NoNumber == -1
\* input() raising EOFError
EOF == << "<EOF>" >>

\* "not x" for x a text or None
Falsy(x) == x = None \/ x = <<>>

\* x or y
OrElse(x, y) == IF Falsy(x) THEN y ELSE x

LowerCh(c) ==
  CASE c = "A" -> "a" [] c = "B" -> "b" [] c = "C" -> "c" [] c = "D" -> "d"
    [] c = "E" -> "e" [] c = "F" -> "f" [] c = "G" -> "g" [] c = "H" -> "h"
    [] c = "I" -> "i" [] c = "J" -> "j" [] c = "K" -> "k" [] c = "L" -> "l"
    [] c = "M" -> "m" [] c = "N" -> "n" [] c = "O" -> "o" [] c = "P" -> "p"
    [] c = "Q" -> "q" [] c = "R" -> "r" [] c = "S" -> "s" [] c = "T" -> "t"
    [] c = "U" -> "u" [] c = "V" -> "v" [] c = "W" -> "w" [] c = "X" -> "x"
    [] c = "Y" -> "y" [] c = "Z" -> "z"
    [] OTHER -> c

\* str.lower()
Lower(s) == [i \in 1..Len(s) |-> LowerCh(s[i])]

\* sub in s
Contains(sub, s) ==
  \E i \in 0..(Len(s) - Len(sub)) : SubSeq(s, i + 1, i + Len(sub)) = sub

\* s.endswith(suf)
EndsWith(s, suf) ==
  Len(s) >= Len(suf) /\ SubSeq(s, Len(s) - Len(suf) + 1, Len(s)) = suf

\* s.startswith(pre)
StartsWith(s, pre) == Len(s) >= Len(pre) /\ SubSeq(s, 1, Len(pre)) = pre

RECURSIVE LStripCh(_, _)
\* s.lstrip(ch)
LStripCh(s, ch) ==
  IF s # <<>> /\ Head(s) = ch THEN LStripCh(Tail(s), ch) ELSE s

RECURSIVE RStripCh(_, _)
RStripCh(s, ch) ==
  IF s # <<>> /\ s[Len(s)] = ch THEN RStripCh(SubSeq(s, 1, Len(s) - 1), ch) ELSE s

\* s.strip()
Strip(s) == RStripCh(LStripCh(s, " "), " ")

Digits == {"0", "1", "2", "3", "4", "5", "6", "7", "8", "9"}

DigitVal(c) ==
  CASE c = "0" -> 0 [] c = "1" -> 1 [] c = "2" -> 2 [] c = "3" -> 3
    [] c = "4" -> 4 [] c = "5" -> 5 [] c = "6" -> 6 [] c = "7" -> 7
    [] c = "8" -> 8 [] c = "9" -> 9

RECURSIVE DigitsVal(_)
DigitsVal(s) ==
  IF s = <<>> THEN 0
  ELSE 10 * DigitsVal(SubSeq(s, 1, Len(s) - 1)) + DigitVal(s[Len(s)])

AllDigits(s) == s # <<>> /\ \A i \in 1..Len(s) : s[i] \in Digits

\* int(raw): ok is FALSE where Python raises ValueError
ParseInt(raw) ==
  LET s == Strip(raw)
  IN  IF AllDigits(s) THEN [ok |-> TRUE, val |-> DigitsVal(s)]
      ELSE IF s # <<>> /\ Head(s) = "-" /\ AllDigits(Tail(s))
           THEN [ok |-> TRUE, val |-> 0 - DigitsVal(Tail(s))]
      ELSE IF s # <<>> /\ Head(s) = "+" /\ AllDigits(Tail(s))
           THEN [ok |-> TRUE, val |-> DigitsVal(Tail(s))]
      ELSE [ok |-> FALSE, val |-> 0]

Min(a, b) == IF a < b THEN a ELSE b
Max(a, b) == IF a > b THEN a ELSE b

\* seq[start:end] with 0 <= start
Slice(seq, start, end) == SubSeq(seq, start + 1, Min(end, Len(seq)))

(***************************************************************************)
(* The catalog service: what archive.org answers to the requests the       *)
(* program builds.  It is outside the program; its content is fixed here.  *)
(***************************************************************************)
QUbuntu == <<"u", "b", "u">>
QDebian == <<"d", "e", "b">>

MkDoc(id, title, dl, date, pub) ==
  [identifier |-> id, title |-> title, downloads |-> dl, date |-> date,
   publicdate |-> pub]

CatalogDocs(q) ==
  IF q = QUbuntu THEN <<
      MkDoc(<<"u", "a">>, <<"A", "l", "p">>, 9, <<"d", "1">>, None),
      MkDoc(<<"u", "b">>, None, NoNumber, None, <<"p", "2">>),
      MkDoc(None, <<"x">>, 3, None, None),
      MkDoc(<<"U", "c">>, <<"b", "a">>, 1, <<>>, <<"p", "4">>) >>
  ELSE IF q = QDebian THEN <<
      MkDoc(<<>>, <<"n", "o">>, 5, None, None),
      MkDoc(<<"u", "b">>, <<"D", "e", "b">>, 2, None, None) >>
  ELSE << >>

\* the "response.docs" of the payload for rows/page of build_url
CatalogPage(q, rows, p) ==
  Slice(CatalogDocs(q), (p - 1) * rows, (p - 1) * rows + rows)

MkFile(name, sha1, md5) == [name |-> name, sha1 |-> sha1, md5 |-> md5]

TorrentSuffix == <<".", "t", "o", "r", "r", "e", "n", "t">>

\* the payload of https://archive.org/details/<identifier>?output=json
ItemDetails(id) ==
  IF id = <<"u", "a">> THEN
    [identifier |-> id, server |-> <<"s", "1">>, dir |-> <<"/", "d">>,
     shape |-> "list",
     files |-> << MkFile(<<"a", ".", "i", "s", "o">>, <<"1">>, <<"m">>),
                  MkFile(<<"b", " ", "b", ".", "z">>, None, <<"m">>),
                  MkFile(<<"c", ".", "I", "S", "O">> \o TorrentSuffix, <<"3">>, None) >>]
  ELSE IF id = <<"u", "b">> THEN
    [identifier |-> None, server |-> None, dir |-> None,
     shape |-> "dict",
     files |-> << MkFile(<<"/", "D", ".", "I", "S", "O">>, <<"4">>, None) >>]
  ELSE
    [identifier |-> id, server |-> <<"s", "1">>, dir |-> <<"/", "d">>,
     shape |-> "list", files |-> << >>]

NoDetails ==
  [identifier |-> None, server |-> None, dir |-> None, shape |-> "list",
   files |-> << >>]

(***************************************************************************)
(* Pure functions of the program.                                          *)
(***************************************************************************)
RECURSIVE parse_items_keeps_empty(_)
\* parse_items dropping a doc only when its identifier is None
parse_items_keeps_empty(docs) ==
  IF docs = <<>> THEN <<>>
  ELSE LET d == Head(docs)
       IN  IF d.identifier = None THEN parse_items_keeps_empty(Tail(docs))
           ELSE << [identifier |-> d.identifier,
                    downloads |-> d.downloads,
                    title |-> d.title,
                    date |-> OrElse(d.date, d.publicdate)] >>
                \o parse_items_keeps_empty(Tail(docs))

RECURSIVE parse_items(_)
\* parse_items(payload): the payload is represented by its response.docs
parse_items(docs) ==
  IF docs = <<>> THEN <<>>
  ELSE LET d == Head(docs)
       IN  IF Falsy(d.identifier) THEN parse_items(Tail(docs))
           ELSE << [identifier |-> d.identifier,
                    downloads |-> d.downloads,
                    title |-> d.title,
                    date |-> OrElse(d.date, d.publicdate)] >>
                \o parse_items(Tail(docs))

\* lf in (it.identifier.lower() + " " + (it.title or "").lower())
ItemMatches(it, lf) ==
  Contains(lf, Lower(it.identifier) \o <<" ">> \o Lower(OrElse(it.title, <<>>)))

\* items of the payload under the results filter
FilterItems(base_items, flt) ==
  IF ~Falsy(flt)
  THEN LET lf == Lower(flt)
           Keep(it) == ItemMatches(it, lf)
       IN  SelectSeq(base_items, Keep)
  ELSE base_items

\* files_obj normalised: a dict keyed by path becomes a list of named files
NormalizeFiles(d) ==
  IF d.shape = "dict"
  THEN [i \in 1..Len(d.files) |->
          [d.files[i] EXCEPT !.name = LStripCh(d.files[i].name, "/")]]
  ELSE d.files

\* f.get("name", "").lower().endswith("." + ef), ef = ext.lower().lstrip(".")
ExtMatches(name, ext) ==
  EndsWith(Lower(name), <<".">> \o LStripCh(Lower(ext), "."))

\* sub in f.get("name", "").lower(), sub = term.lower()
NameContains(name, term) == Contains(Lower(term), Lower(name))

\* files_list: the --ext filter, the --file-contains filter, the runtime
\* files_filter, in that order
FilesList(d, ext, file_contains, flt) ==
  LET KeepExt(f) == Falsy(ext) \/ ExtMatches(f.name, ext)
      KeepSub(f) == Falsy(file_contains) \/ NameContains(f.name, file_contains)
      KeepFlt(f) == Falsy(flt) \/ NameContains(f.name, flt)
  IN  SelectSeq(SelectSeq(SelectSeq(NormalizeFiles(d), KeepExt), KeepSub), KeepFlt)

\* page_size = max(1, args.rows)
PageSize(rows) == Max(1, rows)

\* TotalPages with the division rounding down
TotalPagesFloor(n, page_size) == Max(1, n \div page_size)

\* total_pages = max(1, (len(files_list) + page_size - 1) // page_size)
TotalPages(n, page_size) == Max(1, (n + page_size - 1) \div page_size)

\* if files_page > total_pages: files_page = total_pages
ClampPage(fp, total) == IF fp > total THEN total ELSE fp

\* PageStart taking the page number as 0-based
PageStartZeroBased(fp, page_size) == fp * page_size

\* start = (files_page - 1) * page_size
PageStart(fp, page_size) == (fp - 1) * page_size

\* page_slice = files_list[start:end], end = start + page_size
PageSlice(fl, fp, page_size) ==
  Slice(fl, PageStart(fp, page_size), PageStart(fp, page_size) + page_size)

RECURSIVE Quote(_)
\* urllib.parse.quote(name): a space becomes %20, the other characters of
\* the model's alphabet are kept
Quote(s) ==
  IF s = <<>> THEN <<>>
  ELSE (IF Head(s) = " " THEN <<"%", "2", "0">> ELSE <<Head(s)>>) \o Quote(Tail(s))

\* build_file_url: None without server or dir
build_file_url(d, name) ==
  IF Falsy(d.server) \/ Falsy(d.dir) THEN None
  ELSE <<"h", ":">> \o d.server \o d.dir \o <<"/">> \o Quote(LStripCh(name, "/"))

\* build_file_info (the fields the action menu reads)
build_file_info(d, f, hash_type, download_dir) ==
  [name |-> f.name,
   md5 |-> f.md5,
   sha1 |-> f.sha1,
   url |-> OrElse(build_file_url(d, f.name), <<>>),
   page_url |-> IF ~Falsy(d.identifier) THEN <<"p", ":">> \o d.identifier ELSE <<>>,
   is_torrent |-> EndsWith(Lower(f.name), TorrentSuffix),
   download_dir |-> download_dir,
   preferred_hash |-> hash_type]

NoFileInfo ==
  [name |-> <<>>, md5 |-> None, sha1 |-> None, url |-> <<>>, page_url |-> <<>>,
   is_torrent |-> FALSE, download_dir |-> <<>>, preferred_hash |-> "sha1"]

(***************************************************************************)
(* Startup configuration (the parsed command line).                        *)
(***************************************************************************)
DownloadDir == <<".", "/", "d">>

DefaultConfig(rows) ==
  [rows |-> rows, ext |-> None, file_contains |-> None, no_aria2 |-> FALSE,
   aria2_path |-> None, hash |-> "sha1", download_dir |-> DownloadDir]

\* the command lines tried: the defaults with --rows 0 and with the largest
\* --rows; --rows 1 --no-aria2 --hash md5; and the largest --rows with
\* --ext .ISO --file-contains A --aria2-path /x
Configs ==
  { DefaultConfig(0),
    DefaultConfig(MaxRows),
    [DefaultConfig(1) EXCEPT !.no_aria2 = TRUE, !.hash = "md5"],
    [DefaultConfig(MaxRows) EXCEPT !.ext = <<".", "I", "S", "O">>,
                                   !.file_contains = <<"A">>,
                                   !.aria2_path = <<"/", "x">>] }

(***************************************************************************)
(* State.                                                                  *)
(***************************************************************************)
VARIABLES
  pc,             \* where main() is: "start", a prompt it waits at, "Downloading", "Done"
  rc,             \* how the process ended: "none", "0", "2", "crash"
  cfg,            \* args, except query and page
  query,          \* args.query
  page,           \* args.page
  payload,        \* response.docs of the last payload fetched
  items,          \* the displayed records
  results_filter, \* results_filter
  details,        \* details of the selected item
  files_filter,   \* files_filter (None also while it is unbound)
  files_page,     \* files_page (Unbound until first assigned)
  total_pages,    \* total_pages of the last render of the file list
  page_slice,     \* page_slice of the last render of the file list
  finfo,          \* finfo of the selected file
  dl,             \* the running download: "none", "aria2", "fallback"
  key,            \* keystroke typed while the download runs: "none", "c", "q"
  dir_exists,     \* whether args.download_dir exists
  last,           \* the command handled last, the request it issued and its outcome
  msgs,           \* what the last command printed
  needs_redraw,   \* _NEEDS_REDRAW
  render,         \* where the render at the top of a loop stands: "none" (not in
                  \* it, or past it), "print" (_NEEDS_REDRAW was found set, the
                  \* screen is not cleared yet), "clear" (the screen is cleared,
                  \* the flag is not yet)
  unserved        \* whether a resize has arrived since the screen was last cleared

vars == << pc, rc, cfg, query, page, payload, items, results_filter, details,
           files_filter, files_page, total_pages, page_slice, finfo, dl, key,
           dir_exists, last, msgs, needs_redraw, render, unserved >>

resultsVars == << query, page, payload, items, results_filter >>
filesVars == << details, files_filter, files_page, total_pages, page_slice >>
dlVars == << dl, key, dir_exists >>
redrawVars == << needs_redraw, render, unserved >>

\* 'files_page' not in locals()
Unbound == 0

\* The record of the command handled last: cmd names the handler (and the
\* way through it), fetch the request it issued ("none", "search", "detail",
\* "lookup"), ok whether that succeeded; arg is the filter in force before a
\* filter or reset command, the query typed at a search, the digest handed
\* to the lookup, or what shutil.which("aria2c") returned to a download; idx is the index selected in the file list, the file page
\* before a next or prev of the file list, or the exit status of the child.
CmdRec(c, fetch, ok, arg, idx) ==
  [cmd |-> c, fetch |-> fetch, ok |-> ok, arg |-> arg, idx |-> idx]

Cmd(c, fetch, ok) == CmdRec(c, fetch, ok, << >>, 0)

Init ==
  /\ pc = "start"
  /\ rc = "none"
  /\ cfg \in Configs
  /\ query = QUbuntu
  /\ page = 1
  /\ payload = << >>
  /\ items = << >>
  /\ results_filter = None
  /\ details = NoDetails
  /\ files_filter = None
  /\ files_page = Unbound
  /\ total_pages = 1
  /\ page_slice = << >>
  /\ finfo = NoFileInfo
  /\ dl = "none"
  /\ key = "none"
  /\ dir_exists = FALSE
  /\ last = Cmd("init", "none", TRUE)
  /\ msgs = << >>
  /\ needs_redraw = FALSE
  /\ render = "none"
  /\ unserved = FALSE

\* Every command runs while no render is under way and ends at the top of a
\* loop or out of the loops.  At the top of the Results loop and of the files
\* loop the render starts with "if _NEEDS_REDRAW:"; with the flag set, the
\* print that clears the screen and the assignment that clears the flag follow,
\* one statement at a time (RenderPrint, RenderClear).
AfterCommand ==
  /\ render = "none"
  /\ render' = IF needs_redraw /\ pc' \in { "Results", "ItemFiles" }
               THEN "print" ELSE "none"
  /\ UNCHANGED << needs_redraw, unserved >>

\* return / break out of the results loop / unhandled exception: the process
\* ends and its variables with it (what outlives it: how it ended, what it
\* printed, the file system)
Exit(code) ==
  /\ pc' = "Done"
  /\ rc' = code
  /\ query' = << >>
  /\ page' = 1
  /\ payload' = << >>
  /\ items' = << >>
  /\ results_filter' = None
  /\ details' = NoDetails
  /\ files_filter' = None
  /\ files_page' = Unbound
  /\ total_pages' = 1
  /\ page_slice' = << >>
  /\ finfo' = NoFileInfo
  /\ dl' = "none"
  /\ key' = "none"

\* main() up to the results loop: the first catalog fetch
Startup(ok) ==
  /\ pc = "start"
  /\ last' = Cmd("start", "search", ok)
  /\ IF ~ok
     THEN /\ Exit("2")
          /\ msgs' = << "Request failed" >>
     ELSE IF parse_items(CatalogPage(query, cfg.rows, page)) = << >>
     THEN /\ Exit("0")
          /\ msgs' = << "table" >>
     ELSE /\ payload' = CatalogPage(query, cfg.rows, page)
          /\ items' = parse_items(payload')
          /\ msgs' = << >>
          /\ pc' = "Results"
          /\ UNCHANGED << rc, query, page, results_filter, filesVars, finfo,
                          dl, key >>
  /\ UNCHANGED << cfg, dir_exists >>
  /\ AfterCommand

(***************************************************************************)
(* Results: the prompt of the results loop and its handlers.               *)
(***************************************************************************)
\* lines typed at the "Selection or Action" prompt of the results list
ResultsInputs ==
  { <<" ">>, EOF, <<"q">>, <<"n">>, <<"N">>, <<"p">>, <<"r">>, <<"s">>,
    <<"/">>, <<"/", "A">>, <<"1">>, <<" ", "2">>, <<"3">>, <<"x">> }

\* lines typed at the "Filter text" prompt
TermInputs == { <<"z", "z">>, EOF }

\* lines typed at the "New query" prompt
QueryInputs == { EOF, <<" ">> \o QDebian }

\* lines typed at the "Selection or Action" prompt of the file list
FilesInputs ==
  { <<>>, <<"q">>, <<"/">>, <<"/", "I", "s", "o">>, <<"R">>, <<"b">>, <<"c">>,
    <<"o">>, <<"n">>, <<"P">>, <<"1">>, <<"2", " ">>, <<"3">>, <<"1", "-", "2">> }

\* lines typed at the action prompt
ActionInputs ==
  { <<>>, <<"Q">>, <<"o">>, <<"c">>, <<"H">>, <<" ", "D">>, <<"x">> }

\* input(...).strip(), with EOFError read as ""
ReadLine(inp) == IF inp = EOF THEN <<>> ELSE Strip(inp)

\* What the prompts compute from a line, tabulated once per line: raw (the
\* stripped line), raw.lower(), int(raw), and the "," / "-" test of the
\* file list.
Typed ==
  [inp \in ResultsInputs \cup TermInputs \cup QueryInputs \cup FilesInputs
           \cup ActionInputs |->
     [raw |-> ReadLine(inp),
      lower |-> Lower(ReadLine(inp)),
      int |-> ParseInt(ReadLine(inp)),
      multi |-> Contains(<<",">>, ReadLine(inp)) \/ Contains(<<"-">>, ReadLine(inp))]]

CommandLetters == { <<"q">>, <<"n">>, <<"p">>, <<"r">>, <<"s">> }

\* sel, as the results prompt sets it from the line typed; n = len(items)
ResultsSel(inp, n) ==
  LET raw == Typed[inp].raw
  IN
  IF raw = <<>> THEN [kind |-> "none", val |-> <<>>, idx |-> 0, why |-> "blank"]
  ELSE IF Typed[inp].lower \in CommandLetters
       THEN [kind |-> "str", val |-> raw, idx |-> 0, why |-> ""]
  ELSE IF StartsWith(raw, <<"/">>)
       THEN [kind |-> "str", val |-> <<"/">>, idx |-> 0, why |-> ""]
  ELSE LET r == Typed[inp].int
       IN  IF ~r.ok
           THEN [kind |-> "none", val |-> <<>>, idx |-> 0, why |-> "invalid"]
           ELSE IF 1 <= r.val /\ r.val <= n
                THEN [kind |-> "idx", val |-> <<>>, idx |-> r.val - 1, why |-> ""]
                ELSE [kind |-> "none", val |-> <<>>, idx |-> 0, why |-> "range"]

\* sel == c for a string c
SelIs(sel, c) == sel.kind = "str" /\ sel.val = c

\* term = raw[1:] if len(raw) > 1 else input("Filter text: ").strip()
FilterTerm(raw, inp2) == IF Len(raw) > 1 THEN Tail(raw) ELSE Typed[inp2].raw

\* ResultsFilter filtering the displayed records instead of the payload's
ResultsFilterShown(inp, inp2) ==
  /\ pc = "Results"
  /\ LET raw == Typed[inp].raw
         sel == ResultsSel(inp, Len(items))
     IN  /\ SelIs(sel, <<"/">>)
         /\ results_filter' = OrElse(FilterTerm(raw, inp2), None)
         /\ items' = FilterItems(items, results_filter')
  /\ last' = CmdRec("filter", "none", TRUE, results_filter, 0)
  /\ msgs' = << >>
  /\ UNCHANGED << pc, rc, cfg, query, page, payload, filesVars, finfo, dlVars >>
  /\ AfterCommand

\* ResultsFilter fetching the page again before it filters
ResultsFilterRefetches(inp, inp2) ==
  /\ pc = "Results"
  /\ LET raw == Typed[inp].raw
         sel == ResultsSel(inp, Len(items))
     IN  /\ SelIs(sel, <<"/">>)
         /\ results_filter' = OrElse(FilterTerm(raw, inp2), None)
         /\ payload' = CatalogPage(query, cfg.rows, page)
         /\ items' = FilterItems(parse_items(payload'), results_filter')
  /\ last' = CmdRec("filter", "search", TRUE, results_filter, 0)
  /\ msgs' = << >>
  /\ UNCHANGED << pc, rc, cfg, query, page, filesVars, finfo, dlVars >>
  /\ AfterCommand

\* if sel == "/": set the runtime results filter
ResultsFilter(inp, inp2) ==
  /\ pc = "Results"
  /\ LET raw == Typed[inp].raw
         sel == ResultsSel(inp, Len(items))
     IN  /\ SelIs(sel, <<"/">>)
         /\ results_filter' = OrElse(FilterTerm(raw, inp2), None)
         /\ items' = FilterItems(parse_items(payload), results_filter')
  /\ last' = CmdRec("filter", "none", TRUE, results_filter, 0)
  /\ msgs' = << >>
  /\ UNCHANGED << pc, rc, cfg, query, page, payload, filesVars, finfo, dlVars >>
  /\ AfterCommand

\* ResultsSearch leaving the results filter in force
ResultsSearchKeepsFilter(inp, inp2, ok) ==
  /\ pc = "Results"
  /\ LET sel == ResultsSel(inp, Len(items))
         new_q == Typed[inp2].raw
     IN  /\ SelIs(sel, <<"s">>)
         /\ IF new_q = <<>>
            THEN /\ ok
                 /\ last' = CmdRec("search", "none", TRUE, new_q, 0)
                 /\ msgs' = << >>
                 /\ UNCHANGED resultsVars
            ELSE /\ query' = new_q
                 /\ page' = 1
                 /\ UNCHANGED results_filter
                 /\ last' = CmdRec("search", "search", ok, new_q, 0)
                 /\ IF ok
                    THEN /\ payload' = CatalogPage(query', cfg.rows, page')
                         /\ items' = FilterItems(parse_items(payload'), results_filter)
                         /\ msgs' = << >>
                    ELSE /\ msgs' = << "Search failed" >>
                         /\ UNCHANGED << payload, items >>
  /\ UNCHANGED << pc, rc, cfg, filesVars, finfo, dlVars >>
  /\ AfterCommand

\* if sel == 's': a new search
ResultsSearch(inp, inp2, ok) ==
  /\ pc = "Results"
  /\ LET sel == ResultsSel(inp, Len(items))
         new_q == Typed[inp2].raw
     IN  /\ SelIs(sel, <<"s">>)
         /\ IF new_q = <<>>
            THEN /\ ok
                 /\ last' = CmdRec("search", "none", TRUE, new_q, 0)
                 /\ msgs' = << >>
                 /\ UNCHANGED resultsVars
            ELSE /\ query' = new_q
                 /\ page' = 1
                 /\ results_filter' = None
                 /\ last' = CmdRec("search", "search", ok, new_q, 0)
                 /\ IF ok
                    THEN /\ payload' = CatalogPage(query', cfg.rows, page')
                         /\ items' = parse_items(payload')
                         /\ msgs' = << >>
                    ELSE /\ msgs' = << "Search failed" >>
                         /\ UNCHANGED << payload, items >>
  /\ UNCHANGED << pc, rc, cfg, filesVars, finfo, dlVars >>
  /\ AfterCommand

\* ResultsReset clearing the filter over the payload at hand, without a fetch
ResultsResetLocal(inp, ok) ==
  /\ pc = "Results"
  /\ SelIs(ResultsSel(inp, Len(items)), <<"r">>)
  /\ results_filter' = None
  /\ items' = parse_items(payload)
  /\ last' = CmdRec("reset", "none", TRUE, results_filter, 0)
  /\ msgs' = << >>
  /\ UNCHANGED << pc, rc, cfg, query, page, payload, filesVars, finfo, dlVars >>
  /\ AfterCommand

\* if sel == 'r': clear the filter and reload page 1
ResultsReset(inp, ok) ==
  /\ pc = "Results"
  /\ SelIs(ResultsSel(inp, Len(items)), <<"r">>)
  /\ results_filter' = None
  /\ page' = 1
  /\ last' = CmdRec("reset", "search", ok, results_filter, 0)
  /\ IF ok
     THEN /\ payload' = CatalogPage(query, cfg.rows, page')
          /\ items' = parse_items(payload')
          /\ msgs' = << >>
     ELSE /\ msgs' = << "Failed to reload page 1" >>
          /\ items' = parse_items(payload)
          /\ UNCHANGED payload
  /\ UNCHANGED << pc, rc, cfg, query, filesVars, finfo, dlVars >>
  /\ AfterCommand

\* if sel == "q": break
ResultsQuit(inp) ==
  /\ pc = "Results"
  /\ SelIs(ResultsSel(inp, Len(items)), <<"q">>)
  /\ Exit("0")
  /\ last' = Cmd("quit", "none", TRUE)
  /\ msgs' = << >>
  /\ UNCHANGED << cfg, dir_exists >>
  /\ AfterCommand

\* if sel is None: print(table); break
ResultsNone(inp) ==
  /\ pc = "Results"
  /\ LET sel == ResultsSel(inp, Len(items))
     IN  /\ sel.kind = "none"
         /\ last' = Cmd(sel.why, "none", TRUE)
         /\ msgs' = IF sel.why = "invalid" THEN << "Invalid input.", "table" >>
                    ELSE << "table" >>
  /\ Exit("0")
  /\ UNCHANGED << cfg, dir_exists >>
  /\ AfterCommand

\* if sel == 'n': fetch the next page
ResultsNext(inp, ok) ==
  /\ pc = "Results"
  /\ SelIs(ResultsSel(inp, Len(items)), <<"n">>)
  /\ page < MaxPage
  /\ page' = page + 1
  /\ last' = Cmd("next", "search", ok)
  /\ IF ok
     THEN /\ payload' = CatalogPage(query, cfg.rows, page')
          /\ items' = FilterItems(parse_items(payload'), results_filter)
          /\ msgs' = << >>
     ELSE /\ msgs' = << "Failed to load next page" >>
          /\ UNCHANGED << payload, items >>
  /\ UNCHANGED << pc, rc, cfg, query, results_filter, filesVars, finfo, dlVars >>
  /\ AfterCommand

\* if sel == 'p': fetch the previous page
ResultsPrev(inp, ok) ==
  /\ pc = "Results"
  /\ SelIs(ResultsSel(inp, Len(items)), <<"p">>)
  /\ page' = IF page > 1 THEN page - 1 ELSE page
  /\ last' = Cmd("prev", "search", ok)
  /\ IF ok
     THEN /\ payload' = CatalogPage(query, cfg.rows, page')
          /\ items' = FilterItems(parse_items(payload'), results_filter)
          /\ msgs' = << >>
     ELSE /\ msgs' = << "Failed to load previous page" >>
          /\ UNCHANGED << payload, items >>
  /\ UNCHANGED << pc, rc, cfg, query, results_filter, filesVars, finfo, dlVars >>
  /\ AfterCommand

(***************************************************************************)
(* The item-scoped files loop.                                             *)
(***************************************************************************)
\* break out of the files loop: the results loop goes round again.  details,
\* total_pages and page_slice are assigned anew before they are read again
\* (lines 1071, 1118, 1123): they are cleared here.
LeaveFilesLoop ==
  /\ pc' = "Results"
  /\ details' = NoDetails
  /\ total_pages' = 1
  /\ page_slice' = << >>

\* The top of the files loop, reached on entering an item and on every
\* "continue": build files_list; break to the results loop when it is
\* empty, else clamp the page and take the slice that is rendered.
\* d, ff, fp: details, files_filter, files_page as the handler leaves them;
\* m: what the handler printed.  finfo is assigned anew before it is read
\* again (line 1209): it is cleared here.
FilesLoopTop(d, ff, fp, m) ==
  LET files_list == FilesList(d, cfg.ext, cfg.file_contains, ff)
      fp1 == IF fp = Unbound THEN 1 ELSE fp
      page_size == PageSize(cfg.rows)
      total == TotalPages(Len(files_list), page_size)
      fp2 == ClampPage(fp1, total)
  IN  /\ finfo' = NoFileInfo
      /\ IF files_list = << >>
         THEN /\ msgs' = Append(m, "No files match filters.")
              /\ files_page' = fp
              /\ LeaveFilesLoop
         ELSE /\ pc' = "ItemFiles"
              /\ msgs' = m
              /\ details' = d
              /\ files_page' = fp2
              /\ total_pages' = total
              /\ page_slice' = PageSlice(files_list, fp2, page_size)

\* items[sel] with sel still a string: TypeError, not caught
ResultsIndexError(inp) ==
  /\ pc = "Results"
  /\ LET sel == ResultsSel(inp, Len(items))
     IN  /\ sel.kind = "str"
         /\ sel.val \notin (CommandLetters \cup { <<"/">> })
  /\ Exit("crash")
  /\ last' = Cmd("index_error", "none", FALSE)
  /\ msgs' = << "TypeError" >>
  /\ UNCHANGED << cfg, dir_exists >>
  /\ AfterCommand

\* chosen = items[sel]; fetch its details; enter the files loop
ResultsSelect(inp, ok) ==
  /\ pc = "Results"
  /\ LET sel == ResultsSel(inp, Len(items))
     IN  /\ sel.kind = "idx"
         /\ last' = CmdRec("select", "detail", ok, << >>, sel.idx)
         /\ IF ok
            THEN /\ FilesLoopTop(ItemDetails(items[sel.idx + 1].identifier),
                                 files_filter, files_page, << >>)
                 /\ UNCHANGED << rc, resultsVars, files_filter, dl, key >>
            ELSE /\ msgs' = << "Details fetch failed", "table" >>
                 /\ Exit("2")
  /\ UNCHANGED << cfg, dir_exists >>
  /\ AfterCommand

\* raw = input(...).strip(), when input() returns
FilesRaw(inp) == Typed[inp].raw

\* raw.lower()
FilesLower(inp) == Typed[inp].lower

FilesLetters ==
  { <<"q">>, <<"r">>, <<"b">>, <<"c">>, <<"o">>, <<"n">>, <<"p">> }

\* input() raises EOFError at the file-list prompt: return 0
FilesEOF ==
  /\ pc = "ItemFiles"
  /\ Exit("0")
  /\ last' = Cmd("f_eof", "none", TRUE)
  /\ msgs' = << >>
  /\ UNCHANGED << cfg, dir_exists >>
  /\ AfterCommand

\* FilesQuit leaving the file list for the results list only
FilesQuitGoesBack(inp) ==
  /\ pc = "ItemFiles"
  /\ FilesLower(inp) = <<"q">>
  /\ LeaveFilesLoop
  /\ last' = Cmd("f_quit", "none", TRUE)
  /\ msgs' = << >>
  /\ UNCHANGED << rc, cfg, resultsVars, files_filter, files_page, finfo, dlVars >>
  /\ AfterCommand

\* q: quit entirely
FilesQuit(inp) ==
  /\ pc = "ItemFiles"
  /\ FilesLower(inp) = <<"q">>
  /\ Exit("0")
  /\ last' = Cmd("f_quit", "none", TRUE)
  /\ msgs' = << >>
  /\ UNCHANGED << cfg, dir_exists >>
  /\ AfterCommand

\* /term: set the runtime files filter, page 1
FilesFilter(inp, inp2) ==
  /\ pc = "ItemFiles"
  /\ LET raw == FilesRaw(inp)
     IN  /\ StartsWith(raw, <<"/">>)
         /\ files_filter' = OrElse(FilterTerm(raw, inp2), None)
         /\ FilesLoopTop(details, files_filter', 1, << >>)
  /\ last' = CmdRec("f_filter", "none", TRUE, files_filter, 0)
  /\ UNCHANGED << rc, cfg, resultsVars, dlVars >>
  /\ AfterCommand

\* r: clear the files filter, page 1
FilesReset(inp) ==
  /\ pc = "ItemFiles"
  /\ FilesLower(inp) = <<"r">>
  /\ files_filter' = None
  /\ FilesLoopTop(details, None, 1, << >>)
  /\ last' = CmdRec("f_reset", "none", TRUE, files_filter, 0)
  /\ UNCHANGED << rc, cfg, resultsVars, dlVars >>
  /\ AfterCommand

\* FilesBack dropping the results filter on the way back
FilesBackClearsFilter(inp) ==
  /\ pc = "ItemFiles"
  /\ FilesLower(inp) = <<"b">>
  /\ LeaveFilesLoop
  /\ results_filter' = None
  /\ items' = parse_items(payload)
  /\ last' = Cmd("f_back", "none", TRUE)
  /\ msgs' = << >>
  /\ UNCHANGED << rc, cfg, query, page, payload, files_filter, files_page, finfo,
                  dlVars >>
  /\ AfterCommand

\* b: back to the results list
FilesBack(inp) ==
  /\ pc = "ItemFiles"
  /\ FilesLower(inp) = <<"b">>
  /\ LeaveFilesLoop
  /\ last' = Cmd("f_back", "none", TRUE)
  /\ msgs' = << >>
  /\ UNCHANGED << rc, cfg, resultsVars, files_filter, files_page, finfo, dlVars >>
  /\ AfterCommand

\* c / o: copy or open the item's page URL; done: whether the helper succeeded
FilesPageUrl(inp, done) ==
  /\ pc = "ItemFiles"
  /\ FilesLower(inp) \in { <<"c">>, <<"o">> }
  /\ LET page_url == IF ~Falsy(details.identifier)
                     THEN <<"p", ":">> \o details.identifier ELSE <<>>
         what == IF FilesLower(inp) = <<"c">> THEN "copy" ELSE "open"
     IN  /\ IF page_url = <<>>
            THEN /\ ~done
                 /\ FilesLoopTop(details, files_filter, files_page,
                                 << "No page URL available." >>)
            ELSE FilesLoopTop(details, files_filter, files_page,
                              << what, IF done THEN "done" ELSE "failed" >>)
         /\ last' = Cmd("f_" \o what, "none", done)
  /\ UNCHANGED << rc, cfg, resultsVars, files_filter, dlVars >>
  /\ AfterCommand

\* FilesNext going round to the first page from the last
FilesNextWraps(inp) ==
  /\ pc = "ItemFiles"
  /\ FilesLower(inp) = <<"n">>
  /\ FilesLoopTop(details, files_filter,
                  IF files_page >= total_pages THEN 1 ELSE files_page + 1, << >>)
  /\ last' = CmdRec("f_next", "none", TRUE, << >>, files_page)
  /\ UNCHANGED << rc, cfg, resultsVars, files_filter, dlVars >>
  /\ AfterCommand

\* n: files_page = min(total_pages, files_page + 1)
FilesNext(inp) ==
  /\ pc = "ItemFiles"
  /\ FilesLower(inp) = <<"n">>
  /\ FilesLoopTop(details, files_filter, Min(total_pages, files_page + 1), << >>)
  /\ last' = CmdRec("f_next", "none", TRUE, << >>, files_page)
  /\ UNCHANGED << rc, cfg, resultsVars, files_filter, dlVars >>
  /\ AfterCommand

\* p: files_page = max(1, files_page - 1)
FilesPrev(inp) ==
  /\ pc = "ItemFiles"
  /\ FilesLower(inp) = <<"p">>
  /\ FilesLoopTop(details, files_filter, Max(1, files_page - 1), << >>)
  /\ last' = CmdRec("f_prev", "none", TRUE, << >>, files_page)
  /\ UNCHANGED << rc, cfg, resultsVars, files_filter, dlVars >>
  /\ AfterCommand

\* the input reaches the single-selection code
FilesIsSelection(inp) ==
  /\ FilesLower(inp) \notin FilesLetters
  /\ ~StartsWith(FilesRaw(inp), <<"/">>)

\* what the single-selection code makes of the line; n = len(page_slice)
FilesSel(inp, n) ==
  IF Typed[inp].multi
  THEN [kind |-> "multi", idx |-> 0]
  ELSE LET r == Typed[inp].int
       IN  IF ~r.ok THEN [kind |-> "invalid", idx |-> 0]
           ELSE IF ~(1 <= r.val /\ r.val <= n) THEN [kind |-> "range", idx |-> 0]
           ELSE [kind |-> "idx", idx |-> r.val]

\* FilesBadSelection leaving the file list, as the results list does on
\* such input
FilesBadSelectionLeaves(inp) ==
  /\ pc = "ItemFiles"
  /\ LET sel == FilesSel(inp, Len(page_slice))
     IN  /\ FilesIsSelection(inp)
         /\ sel.kind # "idx"
         /\ last' = Cmd("f_" \o sel.kind, "none", TRUE)
  /\ LeaveFilesLoop
  /\ msgs' = << >>
  /\ UNCHANGED << rc, cfg, resultsVars, files_filter, files_page, finfo, dlVars >>
  /\ AfterCommand

\* a selection that is refused: several indexes, not a number, out of range
FilesBadSelection(inp) ==
  /\ pc = "ItemFiles"
  /\ LET sel == FilesSel(inp, Len(page_slice))
     IN  /\ FilesIsSelection(inp)
         /\ sel.kind # "idx"
         /\ FilesLoopTop(details, files_filter, files_page,
              << CASE sel.kind = "multi" -> "Please select a single index only."
                   [] sel.kind = "invalid" -> "Invalid selection."
                   [] OTHER -> "Selection out of range." >>)
         /\ last' = Cmd("f_" \o sel.kind, "none", TRUE)
  /\ UNCHANGED << rc, cfg, resultsVars, files_filter, dlVars >>
  /\ AfterCommand

\* sel_file = page_slice[one_idx - 1]; show its details and the action menu
FilesSelect(inp) ==
  /\ pc = "ItemFiles"
  /\ LET sel == FilesSel(inp, Len(page_slice))
     IN  /\ FilesIsSelection(inp)
         /\ sel.kind = "idx"
         /\ finfo' = build_file_info(details, page_slice[sel.idx], cfg.hash,
                                     cfg.download_dir)
  /\ pc' = "FileAction"
  /\ last' = CmdRec("f_select", "none", TRUE, << >>, FilesSel(inp, Len(page_slice)).idx)
  /\ msgs' = << >>
  /\ UNCHANGED << rc, cfg, resultsVars, filesVars, dlVars >>
  /\ AfterCommand

(***************************************************************************)
(* The action menu of a selected file.                                     *)
(***************************************************************************)
\* action = input(...).strip().lower(), when input() returns
ActionOf(inp) == Typed[inp].lower

\* "continue" from the action menu: back to the top of the files loop
BackToFiles(m) == FilesLoopTop(details, files_filter, files_page, m)

\* input() raises EOFError at the action prompt: return 0
ActionEOF ==
  /\ pc = "FileAction"
  /\ Exit("0")
  /\ last' = Cmd("a_eof", "none", TRUE)
  /\ msgs' = << >>
  /\ UNCHANGED << cfg, dir_exists >>
  /\ AfterCommand

\* b or blank: back to the file list
ActionBack(inp) ==
  /\ pc = "FileAction"
  /\ ActionOf(inp) \in { <<"b">>, <<>> }
  /\ BackToFiles(<< >>)
  /\ last' = Cmd("a_back", "none", TRUE)
  /\ UNCHANGED << rc, cfg, resultsVars, files_filter, dlVars >>
  /\ AfterCommand

\* q: return 0
ActionQuit(inp) ==
  /\ pc = "FileAction"
  /\ ActionOf(inp) = <<"q">>
  /\ Exit("0")
  /\ last' = Cmd("a_quit", "none", TRUE)
  /\ msgs' = << >>
  /\ UNCHANGED << cfg, dir_exists >>
  /\ AfterCommand

\* o / c: open or copy the file's download URL; done: whether the helper
\* succeeded
ActionUrl(inp, done) ==
  /\ pc = "FileAction"
  /\ ActionOf(inp) \in { <<"o">>, <<"c">> }
  /\ LET what == IF ActionOf(inp) = <<"o">> THEN "open" ELSE "copy"
     IN  /\ IF Falsy(finfo.url)
            THEN /\ ~done
                 /\ BackToFiles(<< "No Download URL" >>)
            ELSE BackToFiles(<< what, IF done THEN "done" ELSE "failed" >>)
         /\ last' = Cmd("a_" \o what, "none", done)
  /\ UNCHANGED << rc, cfg, resultsVars, files_filter, dlVars >>
  /\ AfterCommand

\* search_sha1_rg_adguard: None on a failed request, a non-200 status or no
\* match; otherwise (name, link)
LookupResults == { "found", "absent", "failed" }

\* h with no sha1: the message's colour is Color.YELLOW | Color.BOLD, which
\* raises TypeError (str | str), not caught
ActionHashNoSha1(inp) ==
  /\ pc = "FileAction"
  /\ ActionOf(inp) = <<"h">>
  /\ Falsy(finfo.sha1)
  /\ Exit("crash")
  /\ last' = Cmd("a_hash", "none", FALSE)
  /\ msgs' = << "TypeError" >>
  /\ UNCHANGED << cfg, dir_exists >>
  /\ AfterCommand

\* h: look the sha1 up on the secondary service
ActionHash(inp, res) ==
  /\ pc = "FileAction"
  /\ ActionOf(inp) = <<"h">>
  /\ ~Falsy(finfo.sha1)
  /\ BackToFiles(IF res = "found"
                 THEN << "Found on rg-adguard:" >> ELSE << "No file found on rg-adguard." >>)
  /\ last' = CmdRec("a_hash", "lookup", res # "failed", finfo.sha1, 0)
  /\ UNCHANGED << rc, cfg, resultsVars, files_filter, dlVars >>
  /\ AfterCommand

ActionLetters == { <<"b">>, <<>>, <<"q">>, <<"o">>, <<"c">>, <<"h">> }

\* ActionUnknown ending the session like the end of input does
ActionUnknownQuits(inp) ==
  /\ pc = "FileAction"
  /\ ActionOf(inp) \notin (ActionLetters \cup { <<"d">> })
  /\ Exit("0")
  /\ last' = Cmd("a_unknown", "none", TRUE)
  /\ msgs' = << "Unknown action." >>
  /\ UNCHANGED << cfg, dir_exists >>
  /\ AfterCommand

\* anything else but d: "Unknown action."
ActionUnknown(inp) ==
  /\ pc = "FileAction"
  /\ ActionOf(inp) \notin (ActionLetters \cup { <<"d">> })
  /\ BackToFiles(<< "Unknown action." >>)
  /\ last' = Cmd("a_unknown", "none", TRUE)
  /\ UNCHANGED << rc, cfg, resultsVars, files_filter, dlVars >>
  /\ AfterCommand

(***************************************************************************)
(* d: the download.  The handler blocks while the child process or the     *)
(* fallback fetch runs; the steps below are the handler up to the launch,  *)
(* what happens meanwhile, and the handler from the end of the download.   *)
(***************************************************************************)
\* d without a file URL
DownloadNoUrl(inp) ==
  /\ pc = "FileAction"
  /\ ActionOf(inp) = <<"d">>
  /\ Falsy(finfo.url)
  /\ BackToFiles(<< "Could not build file URL." >>)
  /\ last' = Cmd("d_nourl", "none", FALSE)
  /\ UNCHANGED << rc, cfg, resultsVars, files_filter, dlVars >>
  /\ AfterCommand

\* DownloadMkdirFails going on to the fallback fetch after the failure
DownloadMkdirIgnored(inp) ==
  /\ pc = "FileAction"
  /\ ActionOf(inp) = <<"d">>
  /\ ~Falsy(finfo.url)
  /\ ~dir_exists
  /\ pc' = "Downloading"
  /\ dl' = "fallback"
  /\ key' = "none"
  /\ last' = Cmd("d_mkdir", "none", FALSE)
  /\ msgs' = << "Could not create download dir", "Downloading" >>
  /\ UNCHANGED << rc, cfg, resultsVars, filesVars, finfo, dir_exists >>
  /\ AfterCommand

\* os.makedirs(args.download_dir, exist_ok=True) raises
DownloadMkdirFails(inp) ==
  /\ pc = "FileAction"
  /\ ActionOf(inp) = <<"d">>
  /\ ~Falsy(finfo.url)
  /\ ~dir_exists
  /\ BackToFiles(<< "Could not create download dir" >>)
  /\ last' = Cmd("d_mkdir", "none", FALSE)
  /\ UNCHANGED << rc, cfg, resultsVars, files_filter, dlVars >>
  /\ AfterCommand

\* Aria2Path looking on the search path only, whatever --aria2-path says
Aria2PathIgnoresConfig(which) == which

\* aria2_path = args.aria2_path or shutil.which("aria2c"); which: its result
Aria2Path(which) == OrElse(cfg.aria2_path, which)

WhichResults == { None, <<"a", "r", "i", "a">> }

\* the part of the d handler that every launch goes through: URL present,
\* directory made
DownloadReady(inp) ==
  /\ pc = "FileAction"
  /\ ActionOf(inp) = <<"d">>
  /\ ~Falsy(finfo.url)
  /\ dir_exists' = TRUE

\* aria2 is used: subprocess.call(cmd) starts the child and waits
DownloadAria2(inp, which) ==
  /\ DownloadReady(inp)
  /\ ~cfg.no_aria2
  /\ ~Falsy(Aria2Path(which))
  /\ pc' = "Downloading"
  /\ dl' = "aria2"
  /\ key' = "none"
  /\ last' = CmdRec("d_aria2", "none", TRUE, which, 0)
  /\ msgs' = << "Found aria2" >>
  /\ UNCHANGED << rc, cfg, resultsVars, filesVars, finfo >>
  /\ AfterCommand

\* subprocess.call(cmd) cannot start the child: OSError, not caught
DownloadExecFails(inp, which) ==
  /\ DownloadReady(inp)
  /\ ~cfg.no_aria2
  /\ ~Falsy(Aria2Path(which))
  /\ Exit("crash")
  /\ last' = CmdRec("d_exec", "none", FALSE, which, 0)
  /\ msgs' = << "Found aria2", "OSError" >>
  /\ UNCHANGED cfg
  /\ AfterCommand

\* what the handler prints on its way to the fallback
FallbackNotice == << "aria2 not found or disabled. Using PySmartDL fallback." >>

\* aria2 disabled or not found, and pySmartDL cannot be imported
DownloadNoLib(inp, which) ==
  /\ DownloadReady(inp)
  /\ cfg.no_aria2 \/ Falsy(Aria2Path(which))
  /\ BackToFiles(FallbackNotice \o << "PySmartDL not installed" >>)
  /\ last' = CmdRec("d_nolib", "none", FALSE, which, 0)
  /\ UNCHANGED << rc, cfg, resultsVars, files_filter, dl, key >>
  /\ AfterCommand

\* DownloadFallback going back to the file list without waiting for the fetch
DownloadFallbackDetached(inp, which) ==
  /\ DownloadReady(inp)
  /\ cfg.no_aria2 \/ Falsy(Aria2Path(which))
  /\ BackToFiles(FallbackNotice \o << "Downloading" >>)
  /\ dl' = "fallback"
  /\ key' = "none"
  /\ last' = CmdRec("d_fallback", "none", TRUE, which, 0)
  /\ UNCHANGED << rc, cfg, resultsVars, files_filter >>
  /\ AfterCommand

\* aria2 disabled or not found: SmartDL(url).start(blocking=False)
DownloadFallback(inp, which) ==
  /\ DownloadReady(inp)
  /\ cfg.no_aria2 \/ Falsy(Aria2Path(which))
  /\ pc' = "Downloading"
  /\ dl' = "fallback"
  /\ key' = "none"
  /\ last' = CmdRec("d_fallback", "none", TRUE, which, 0)
  /\ msgs' = FallbackNotice \o << "Downloading" >>
  /\ UNCHANGED << rc, cfg, resultsVars, filesVars, finfo >>
  /\ AfterCommand

\* the user presses a key while the download runs; nothing reads it
KeyPress(k) ==
  /\ pc = "Downloading"
  /\ key = "none"
  /\ key' = k
  /\ UNCHANGED << pc, rc, cfg, resultsVars, filesVars, finfo, dl, dir_exists,
                  last, msgs >>
  /\ AfterCommand

\* the exit statuses of the child that are tried
ExitStatuses == { 0, 1, 2 }

\* ChildExit starting the fallback fetch when the child has failed
ChildExitFallsBack(ret) ==
  /\ pc = "Downloading"
  /\ dl = "aria2"
  /\ IF ret = 0
     THEN /\ BackToFiles(<< "Download finished." >>)
          /\ dl' = "none"
     ELSE /\ msgs' = << "aria2 exited with code", ToString(ret) >> \o << "Downloading" >>
          /\ dl' = "fallback"
          /\ UNCHANGED << pc, details, files_page, total_pages, page_slice, finfo >>
  /\ key' = "none"
  /\ last' = CmdRec("d_exit", "none", ret = 0, << >>, ret)
  /\ UNCHANGED << rc, cfg, resultsVars, files_filter, dir_exists >>
  /\ AfterCommand

\* the child exits with status ret: subprocess.call returns
ChildExit(ret) ==
  /\ pc = "Downloading"
  /\ dl = "aria2"
  /\ BackToFiles(IF ret = 0 THEN << "Download finished." >>
                 ELSE << "aria2 exited with code", ToString(ret) >>)
  /\ dl' = "none"
  /\ key' = "none"
  /\ last' = CmdRec("d_exit", "none", ret = 0, << >>, ret)
  /\ UNCHANGED << rc, cfg, resultsVars, files_filter, dir_exists >>
  /\ AfterCommand

\* obj.isFinished() becomes true: how the fallback fetch ended
FallbackEnds == { "successful", "errors", "neither" }

FallbackFinish(end) ==
  /\ pc = "Downloading"
  /\ dl = "fallback"
  /\ BackToFiles(CASE end = "successful" -> << "Download finished." >>
                   [] end = "errors" -> << "Failed" >>
                   [] OTHER -> << >>)
  /\ dl' = "none"
  /\ key' = "none"
  /\ last' = Cmd("d_finish", "none", end = "successful")
  /\ UNCHANGED << rc, cfg, resultsVars, files_filter, dir_exists >>
  /\ AfterCommand

(***************************************************************************)
(* The program.                                                            *)
(***************************************************************************)
Next ==
  \/ \E ok \in BOOLEAN : Startup(ok)
  \/ \E inp \in ResultsInputs, inp2 \in TermInputs : ResultsFilter(inp, inp2)
  \/ \E inp \in ResultsInputs, inp2 \in QueryInputs, ok \in BOOLEAN :
        ResultsSearch(inp, inp2, ok)
  \/ \E inp \in ResultsInputs, ok \in BOOLEAN : ResultsReset(inp, ok)
  \/ \E inp \in ResultsInputs : ResultsQuit(inp)
  \/ \E inp \in ResultsInputs : ResultsNone(inp)
  \/ \E inp \in ResultsInputs, ok \in BOOLEAN : ResultsNext(inp, ok)
  \/ \E inp \in ResultsInputs, ok \in BOOLEAN : ResultsPrev(inp, ok)
  \/ \E inp \in ResultsInputs : ResultsIndexError(inp)
  \/ \E inp \in ResultsInputs, ok \in BOOLEAN : ResultsSelect(inp, ok)
  \/ FilesEOF
  \/ \E inp \in FilesInputs : FilesQuit(inp)
  \/ \E inp \in FilesInputs, inp2 \in TermInputs : FilesFilter(inp, inp2)
  \/ \E inp \in FilesInputs : FilesReset(inp)
  \/ \E inp \in FilesInputs : FilesBack(inp)
  \/ \E inp \in FilesInputs, done \in BOOLEAN : FilesPageUrl(inp, done)
  \/ \E inp \in FilesInputs : FilesNext(inp)
  \/ \E inp \in FilesInputs : FilesPrev(inp)
  \/ \E inp \in FilesInputs : FilesBadSelection(inp)
  \/ \E inp \in FilesInputs : FilesSelect(inp)
  \/ ActionEOF
  \/ \E inp \in ActionInputs : ActionBack(inp)
  \/ \E inp \in ActionInputs : ActionQuit(inp)
  \/ \E inp \in ActionInputs, done \in BOOLEAN : ActionUrl(inp, done)
  \/ \E inp \in ActionInputs : ActionHashNoSha1(inp)
  \/ \E inp \in ActionInputs, res \in LookupResults : ActionHash(inp, res)
  \/ \E inp \in ActionInputs : ActionUnknown(inp)
  \/ \E inp \in ActionInputs : DownloadNoUrl(inp)
  \/ \E inp \in ActionInputs : DownloadMkdirFails(inp)
  \/ \E inp \in ActionInputs, which \in WhichResults : DownloadAria2(inp, which)
  \/ \E inp \in ActionInputs, which \in WhichResults : DownloadExecFails(inp, which)
  \/ \E inp \in ActionInputs, which \in WhichResults : DownloadNoLib(inp, which)
  \/ \E inp \in ActionInputs, which \in WhichResults : DownloadFallback(inp, which)
  \/ \E k \in { "c", "q" } : KeyPress(k)
  \/ \E ret \in ExitStatuses : ChildExit(ret)
  \/ \E end \in FallbackEnds : FallbackFinish(end)

\* The program when no resize notification arrives.
Spec == Init /\ [][Next]_vars

(***************************************************************************)
(* Terminal resizes.  SIGWINCH runs _on_resize between any two statements  *)
(* of main(), the statements of the render included.                       *)
(***************************************************************************)
progVars == << resultsVars, filesVars, dlVars, pc, rc, cfg, finfo, last, msgs >>

\* _on_resize
Resize ==
  /\ pc # "Done"
  /\ needs_redraw' = TRUE
  /\ unserved' = TRUE
  /\ UNCHANGED << progVars, render >>

\* print("\033[2J\033[H", end="")
RenderPrint ==
  /\ render = "print"
  /\ render' = "clear"
  /\ unserved' = FALSE
  /\ UNCHANGED << progVars, needs_redraw >>

\* globals()['_NEEDS_REDRAW'] = False
RenderClear ==
  /\ render = "clear"
  /\ render' = "none"
  /\ needs_redraw' = FALSE
  /\ UNCHANGED << progVars, unserved >>

\* the session started with the defaults and the largest --rows
RedrawInit == Init /\ cfg = DefaultConfig(MaxRows)

RedrawNext ==
  \/ Next
  \/ Resize
  \/ RenderPrint
  \/ RenderClear

\* The program with resize notifications arriving at any time.
RedrawSpec == RedrawInit /\ [][RedrawNext]_vars

(***************************************************************************)
(* Properties.                                                             *)
(***************************************************************************)
\* the messages of a handler, as a set
Said(m) == { m[i] : i \in 1..Len(m) }

\* the least k with k * d >= n
CeilDiv(n, d) == CHOOSE k \in 0..n : k * d >= n /\ (k = 0 \/ (k - 1) * d < n)

\* the files of the item that pass the startup filters and the filter flt
Filtered(flt) == FilesList(details, cfg.ext, cfg.file_contains, flt)

\* the number of the last page of the catalog's result set for the query
LastCatalogPage == Max(1, CeilDiv(Len(CatalogDocs(query)), Max(1, cfg.rows)))

\* how a finished download was reported
Outcome(m) ==
  IF "Cancelled" \in Said(m) THEN "Cancelled"
  ELSE IF "Download finished." \in Said(m) THEN "Succeeded"
  ELSE "Failed"

\* C1: in Results, when the item-detail fetch of a numeric selection fails,
\* the error is reported and the session stays in Results with the
\* displayed records, the filter and the page number unchanged.
C1_DetailFailureStaysInResults ==
  [][ (pc = "Results" /\ last'.cmd = "select" /\ ~last'.ok)
      => /\ pc' = "Results"
         /\ "Details fetch failed" \in Said(msgs')
         /\ items' = items
         /\ results_filter' = results_filter
         /\ page' = page ]_vars

\* C2: in Results, blank input, a malformed non-numeric command or a number
\* outside 1..len(items) is reported and the prompt is shown again with
\* query, page, filter and displayed records unchanged; the session does
\* not end.
C2_InputErrorReprompts ==
  [][ (pc = "Results" /\ last'.cmd \in { "blank", "invalid", "range" })
      => /\ pc' = "Results"
         /\ query' = query
         /\ page' = page
         /\ results_filter' = results_filter
         /\ items' = items ]_vars

\* C3: in Results, when the catalog fetch of next or prev fails, the page
\* number and the displayed records are as before the command and the error
\* is reported.
C3_PagingFailureKeepsPage ==
  [][ (pc = "Results" /\ last'.cmd \in { "next", "prev" } /\ ~last'.ok)
      => /\ page' = page
         /\ items' = items
         /\ msgs' # << >> ]_vars

\* C4: in Results, next on the last page of the catalog's result set is a
\* no-op: the page number and the displayed records stay (stated here for
\* the run in which the fetch that next issues succeeds).
C4_NextAtLastPageIsNoOp ==
  [][ (/\ pc = "Results"
       /\ page = LastCatalogPage
       /\ payload = CatalogPage(query, cfg.rows, page)
       /\ last'.cmd = "next"
       /\ last'.ok)
      => /\ page' = page
         /\ items' = items ]_vars

\* C5: a cancel keystroke typed while a download runs ends the download
\* with outcome Cancelled and the session back in ItemFiles.
C5_CancelKeyCancelsDownload ==
  [][ (pc = "Downloading" /\ key = "c" /\ pc' # "Downloading")
      => /\ pc' = "ItemFiles"
         /\ Outcome(msgs') = "Cancelled" ]_vars

\* C6: in FileAction, open and copy leave the session in FileAction for the
\* same file.
C6_OpenCopyStayInFileAction ==
  [][ (pc = "FileAction" /\ last'.cmd \in { "a_open", "a_copy" })
      => /\ pc' = "FileAction"
         /\ finfo' = finfo ]_vars

\* C7: in ItemFiles, a filter that matches no file of the item gives an
\* empty window at page 1 of 1 and the session stays in ItemFiles.
C7_EmptyFilterStaysInItemFiles ==
  [][ (/\ pc = "ItemFiles"
       /\ last'.cmd = "f_filter"
       /\ Filtered(files_filter') = << >>)
      => /\ pc' = "ItemFiles"
         /\ page_slice' = << >>
         /\ files_page' = 1
         /\ total_pages' = 1 ]_vars

\* C8: at every render of the file list, the page size is at least 1,
\* total_pages = max(1, ceil(filtered length / page size)) and
\* 1 <= files_page <= total_pages.
C8_PageInvariant ==
  pc = "ItemFiles"
    => /\ PageSize(cfg.rows) >= 1
       /\ total_pages = Max(1, CeilDiv(Len(Filtered(files_filter)), PageSize(cfg.rows)))
       /\ 1 <= files_page
       /\ files_page <= total_pages

\* a render of the last of several pages, reached with the next command
C8_Witness ==
  /\ pc = "ItemFiles"
  /\ last.cmd = "f_next"
  /\ total_pages >= 2
  /\ files_page = total_pages
  /\ Len(Filtered(files_filter)) % PageSize(cfg.rows) # 0

\* C9: selecting index k of the window of page p hands to FileAction the
\* file at position (p - 1) * pageSize + k - 1 (counted from 0) of the
\* filtered file sequence.
C9_SelectionResolves ==
  pc = "FileAction"
    => LET k == last.idx
           pos == (files_page - 1) * PageSize(cfg.rows) + k
       IN  /\ last.cmd = "f_select"
           /\ 1 <= k
           /\ k <= Len(page_slice)
           /\ pos <= Len(Filtered(files_filter))
           /\ finfo = build_file_info(details, Filtered(files_filter)[pos],
                                      cfg.hash, cfg.download_dir)

\* a file selected on a page after the first
C9_Witness ==
  /\ pc = "FileAction"
  /\ files_page >= 2
  /\ last.idx >= 1
  /\ finfo.name = Filtered(files_filter)[(files_page - 1) * PageSize(cfg.rows) + last.idx].name

\* C10: clearing a filter that was in force (an empty filter term; reset in
\* ItemFiles) gives the unfiltered window at page 1: in Results all the
\* records of the last fetched page, in ItemFiles the first page of the
\* unfiltered files.
C10_ClearRestoresUnfiltered ==
  /\ (pc = "Results" /\ last.cmd = "filter" /\ ~Falsy(last.arg) /\ Falsy(results_filter))
       => items = parse_items(payload)
  /\ (last.cmd \in { "f_filter", "f_reset" } /\ ~Falsy(last.arg) /\ Falsy(files_filter))
       => /\ pc = "ItemFiles"
          /\ files_page = 1
          /\ page_slice = SubSeq(Filtered(None), 1,
                                 Min(PageSize(cfg.rows), Len(Filtered(None))))
          /\ total_pages = Max(1, CeilDiv(Len(Filtered(None)), PageSize(cfg.rows)))

\* a results filter that hid records has been cleared
C10_Witness ==
  /\ pc = "Results"
  /\ last.cmd = "filter"
  /\ ~Falsy(last.arg)
  /\ Falsy(results_filter)
  /\ Len(FilterItems(parse_items(payload), last.arg)) < Len(items)

\* a files filter has been cleared in ItemFiles, and more than one page shows
C10_WitnessFiles ==
  /\ pc = "ItemFiles"
  /\ last.cmd = "f_reset"
  /\ ~Falsy(last.arg)
  /\ total_pages >= 2

\* C11: in ItemFiles, next on the last page and prev on page 1 leave the
\* file page, the filter and the displayed window as they were and print no
\* message.
C11_FilesPagingClamped ==
  [][ (/\ pc = "ItemFiles"
       /\ \/ last'.cmd = "f_next" /\ files_page = total_pages
          \/ last'.cmd = "f_prev" /\ files_page = 1)
      => /\ pc' = "ItemFiles"
         /\ files_page' = files_page
         /\ files_filter' = files_filter
         /\ total_pages' = total_pages
         /\ page_slice' = page_slice
         /\ details' = details
         /\ msgs' = << >> ]_vars

\* next has been typed on the last of several pages of the file list
C11_Witness ==
  /\ pc = "ItemFiles"
  /\ last.cmd = "f_next"
  /\ last.idx = total_pages
  /\ files_page = total_pages
  /\ total_pages >= 2

\* C12: in Results, when the catalog fetch of a search (with a non-empty new
\* query) or of a reset fails, query, page number, filter and displayed
\* records are as before the command and the error is reported.
C12_SearchResetFailureKeepsState ==
  [][ (/\ pc = "Results"
       /\ last'.cmd \in { "search", "reset" }
       /\ last'.fetch = "search"
       /\ ~last'.ok)
      => /\ query' = query
         /\ page' = page
         /\ results_filter' = results_filter
         /\ items' = items
         /\ msgs' # << >> ]_vars

\* C13: in Results, a search with a blank new query changes nothing and
\* issues no fetch; a search with a non-blank one makes it the query, sets
\* the page to 1, clears the filter and issues one catalog fetch, whose
\* records are the displayed list when it succeeds.
C13_SearchReplacesQuery ==
  [][ (pc = "Results" /\ last'.cmd = "search")
      => /\ pc' = "Results"
         /\ IF last'.arg = << >>
            THEN /\ last'.fetch = "none"
                 /\ UNCHANGED resultsVars
            ELSE /\ last'.fetch = "search"
                 /\ query' = last'.arg
                 /\ page' = 1
                 /\ results_filter' = None
                 /\ last'.ok => /\ payload' = CatalogPage(last'.arg, cfg.rows, 1)
                                /\ items' = parse_items(payload') ]_vars

\* a new query has been searched for and its records are shown
C13_Witness ==
  /\ pc = "Results"
  /\ last.cmd = "search"
  /\ last.fetch = "search"
  /\ last.ok
  /\ query = QDebian
  /\ items # << >>

\* C14: in Results, reset clears the filter, sets the page number to 1 and
\* issues one catalog fetch; when it succeeds the displayed list is the
\* unfiltered records of page 1.
C14_ResetReloadsFirstPage ==
  (pc = "Results" /\ last.cmd = "reset")
    => /\ results_filter = None
       /\ page = 1
       /\ last.fetch = "search"
       /\ last.ok => /\ payload = CatalogPage(query, cfg.rows, 1)
                     /\ items = parse_items(payload)

\* a reset with a filter in force has reloaded page 1
C14_Witness ==
  /\ pc = "Results"
  /\ last.cmd = "reset"
  /\ last.ok
  /\ ~Falsy(last.arg)
  /\ Len(items) > Len(FilterItems(items, last.arg))

\* C15: the filter command of Results and the next, prev, filter and reset
\* commands of ItemFiles issue no request: the payload at hand and the item
\* detail are not fetched again.
C15_ClientSideCommandsDoNotFetch ==
  [][ (/\ \/ pc = "Results" /\ last'.cmd = "filter"
          \/ pc = "ItemFiles" /\ last'.cmd \in { "f_next", "f_prev", "f_filter", "f_reset" })
      => /\ last'.fetch = "none"
         /\ payload' = payload
         /\ query' = query
         /\ page' = page
         /\ pc' = "ItemFiles" => details' = details ]_vars

\* a files filter that hides files has been set
C15_Witness ==
  /\ pc = "ItemFiles"
  /\ last.cmd = "f_filter"
  /\ last.fetch = "none"
  /\ ~Falsy(files_filter)
  /\ Len(Filtered(files_filter)) < Len(Filtered(None))

\* C16: back in ItemFiles returns to Results and issues no fetch; the
\* query, page number, payload, filter and displayed records of Results are
\* not changed by any step taken since the item was selected, so they are
\* what they were then.
C16_BackPreservesResults ==
  [][ /\ (pc \in { "ItemFiles", "FileAction", "Downloading" } /\ pc' # "Done")
           => UNCHANGED resultsVars
      /\ (pc = "ItemFiles" /\ last'.cmd = "f_back")
           => /\ pc' = "Results"
              /\ last'.fetch = "none"
              /\ UNCHANGED resultsVars ]_vars

\* back has returned to a filtered results list on a page after the first
C16_Witness ==
  /\ pc = "Results"
  /\ last.cmd = "f_back"
  /\ ~Falsy(results_filter)
  /\ page >= 2
  /\ items # << >>

\* the ways through the d handler, up to the launch or to its early end
DownloadCmds ==
  { "d_nourl", "d_mkdir", "d_aria2", "d_exec", "d_nolib", "d_fallback" }

\* C17: the download command of FileAction never ends the session: the d
\* handler either returns to ItemFiles or waits for the download, and when
\* the download is over the session is in ItemFiles.
C17_DownloadReturnsToItemFiles ==
  [][ (\/ pc = "FileAction" /\ last'.cmd \in DownloadCmds
       \/ pc = "Downloading")
      => /\ pc' \in { "ItemFiles", "Downloading" }
         /\ rc' = "none"
         /\ (pc = "Downloading" /\ last'.cmd \in { "d_exit", "d_finish" })
              => pc' = "ItemFiles" ]_vars

\* C18: a download of a torrent-suffixed file that takes the fallback path
\* does not start the fallback fetch and returns to ItemFiles with a message.
C18_FallbackSkipsTorrent ==
  [][ (/\ pc = "FileAction"
       /\ finfo.is_torrent
       /\ last'.cmd \in { "d_fallback", "d_nolib" })
      => /\ dl' # "fallback"
         /\ pc' = "ItemFiles"
         /\ msgs' # << >> ]_vars

\* C19: when the download directory cannot be made, no download is started
\* (neither the child nor the fallback fetch), the failure is printed and
\* the session is back in ItemFiles.
C19_MkdirFailureStartsNothing ==
  [][ (pc = "FileAction" /\ last'.cmd = "d_mkdir")
      => /\ pc' = "ItemFiles"
         /\ rc' = "none"
         /\ dl' = "none"
         /\ ~dir_exists'
         /\ msgs' = << "Could not create download dir" >> ]_vars

\* the directory could not be made and the file list is shown again
C19_Witness ==
  /\ pc = "ItemFiles"
  /\ last.cmd = "d_mkdir"
  /\ ~dir_exists
  /\ dl = "none"
  /\ "Could not create download dir" \in Said(msgs)

\* C20: when the child exits, status 0 is printed as a finished download and
\* any other status as a failure with the status in it; the fallback fetch
\* is not started and the session is back in ItemFiles.
C20_ChildExitReported ==
  [][ (pc = "Downloading" /\ dl = "aria2" /\ last'.cmd = "d_exit")
      => /\ pc' = "ItemFiles"
         /\ rc' = "none"
         /\ dl' = "none"
         /\ last'.ok <=> last'.idx = 0
         /\ msgs' = IF last'.idx = 0
                    THEN << "Download finished." >>
                    ELSE << "aria2 exited with code", ToString(last'.idx) >> ]_vars

\* the child has exited with status 2 and the file list is shown again
C20_Witness ==
  /\ pc = "ItemFiles"
  /\ last.cmd = "d_exit"
  /\ last.idx = 2
  /\ ~last.ok
  /\ msgs = << "aria2 exited with code", "2" >>

\* the ways through the d handler once the directory is made
LaunchCmds == { "d_aria2", "d_exec", "d_nolib", "d_fallback" }

\* C21: a download takes the external downloader exactly when aria2 is not
\* disabled and a path to it is at hand (--aria2-path, or what the search
\* path gives); otherwise it takes the fallback; a download under way is of
\* one kind from its start to its end.
C21_ExactlyOneDownloadPath ==
  [][ /\ (pc = "FileAction" /\ last'.cmd \in LaunchCmds)
           => LET external == /\ ~cfg.no_aria2
                              /\ ~Falsy(cfg.aria2_path) \/ ~Falsy(last'.arg)
              IN  /\ last'.cmd \in { "d_aria2", "d_exec" } <=> external
                  /\ last'.cmd \in { "d_fallback", "d_nolib" } <=> ~external
                  /\ dl' = "aria2" => external
                  /\ dl' = "fallback" => ~external
      /\ pc = "Downloading" => dl' \in { dl, "none" } ]_vars

\* the configured path is used although the search path gives nothing
C21_Witness ==
  /\ pc = "Downloading"
  /\ dl = "aria2"
  /\ last.cmd = "d_aria2"
  /\ last.arg = None
  /\ ~Falsy(cfg.aria2_path)

\* C22: a download with no external downloader and no fallback library is
\* reported as failed and leaves the download directory as it was: it is not
\* created.
C22_NoDownloaderLeavesDirectory ==
  [][ (pc = "FileAction" /\ last'.cmd = "d_nolib")
      => /\ pc' = "ItemFiles"
         /\ msgs' # << >>
         /\ dir_exists' = dir_exists ]_vars

\* C23: the quit command of Results, of ItemFiles and of FileAction ends the
\* session in that step with status 0, issuing no request and starting no
\* download.
C23_QuitEndsSession ==
  [][ (\/ pc = "Results" /\ last'.cmd = "quit"
       \/ pc = "ItemFiles" /\ last'.cmd = "f_quit"
       \/ pc = "FileAction" /\ last'.cmd = "a_quit")
      => /\ pc' = "Done"
         /\ rc' = "0"
         /\ last'.fetch = "none"
         /\ dl' = "none"
         /\ dir_exists' = dir_exists ]_vars

\* the session has been quit from the file list
C23_Witness ==
  /\ pc = "Done"
  /\ rc = "0"
  /\ last.cmd = "f_quit"

\* C24: in FileAction an input that is no action command is reported and
\* does nothing else: no download, lookup, open or copy, the file filter and
\* the file page stay, and the session goes on.
C24_UnknownActionIsNoOp ==
  [][ (pc = "FileAction" /\ last'.cmd = "a_unknown")
      => /\ pc' \in { "ItemFiles", "FileAction" }
         /\ rc' = "none"
         /\ msgs' = << "Unknown action." >>
         /\ last'.fetch = "none"
         /\ dl' = "none"
         /\ dir_exists' = dir_exists
         /\ files_filter' = files_filter
         /\ files_page' = files_page
         /\ details' = details
         /\ UNCHANGED resultsVars ]_vars

\* an unknown action has been typed for a file of a later page
C24_Witness ==
  /\ pc = "ItemFiles"
  /\ last.cmd = "a_unknown"
  /\ files_page >= 2
  /\ msgs = << "Unknown action." >>

\* C25: in FileAction the hash command makes at most one lookup, prints what
\* was found or that nothing was found (a failed or empty lookup does not
\* end the session) and returns to ItemFiles, where the file has to be
\* selected again.
C25_HashReturnsToItemFiles ==
  [][ (pc = "FileAction" /\ last'.cmd = "a_hash")
      => /\ pc' = "ItemFiles"
         /\ rc' = "none"
         /\ last'.fetch \in { "none", "lookup" }
         /\ \/ msgs' = << "Found on rg-adguard:" >>
            \/ msgs' = << "No file found on rg-adguard." >> ]_vars

\* C26: a download is under way only while the d handler waits for it: it
\* starts from FileAction when none is under way, and until it is over no
\* command is handled (nothing but a keystroke arriving happens), so two
\* downloads never overlap and none is queued.
C26_OneDownloadAtATime ==
  [][ /\ dl # "none" => pc = "Downloading"
      /\ dl' # "none" => pc' = "Downloading"
      /\ (dl = "none" /\ dl' # "none") => pc = "FileAction"
      /\ pc = "Downloading"
           => \/ UNCHANGED << pc, rc, dl, last, msgs, resultsVars, filesVars, finfo >>
              \/ /\ last'.cmd \in { "d_exit", "d_finish" }
                 /\ dl' = "none"
                 /\ pc' = "ItemFiles" ]_vars

\* a key has been pressed while the fallback fetch runs
C26_Witness ==
  /\ pc = "Downloading"
  /\ dl = "fallback"
  /\ key # "none"

\* C27: a quit keystroke typed while a download runs ends the session: when
\* the download step is over the session is in the terminal state, not in
\* ItemFiles.
C27_QuitKeyEndsSession ==
  [][ (pc = "Downloading" /\ key = "q" /\ pc' # "Downloading")
      => pc' = "Done" ]_vars

\* C28: in Results, next and prev fetch only when the page they lead to is
\* not the page whose records are at hand; prev at page 1, with the records
\* of page 1 at hand, fetches nothing and leaves the displayed records.
C28_PagingFetchesOnlyNewPage ==
  [][ (pc = "Results" /\ last'.cmd \in { "next", "prev" })
      => /\ last'.fetch = "search" => payload # CatalogPage(query, cfg.rows, page')
         /\ (/\ last'.cmd = "prev"
             /\ page = 1
             /\ payload = CatalogPage(query, cfg.rows, 1))
              => /\ last'.fetch = "none"
                 /\ page' = 1
                 /\ items' = items ]_vars

\* C29: in ItemFiles, blank or non-numeric input, several indexes at once
\* and a number outside 1..len(page_slice) are reported and the prompt comes
\* again in ItemFiles, with the item detail, the file filter, the file page
\* and the window unchanged.
C29_FilesInputErrorReprompts ==
  [][ (pc = "ItemFiles" /\ last'.cmd \in { "f_multi", "f_invalid", "f_range" })
      => /\ pc' = "ItemFiles"
         /\ rc' = "none"
         /\ msgs' # << >>
         /\ details' = details
         /\ files_filter' = files_filter
         /\ files_page' = files_page
         /\ total_pages' = total_pages
         /\ page_slice' = page_slice ]_vars

\* a number out of range has been typed on a later page of the file list
C29_Witness ==
  /\ pc = "ItemFiles"
  /\ last.cmd = "f_range"
  /\ msgs = << "Selection out of range." >>
  /\ files_page >= 2

\* a doc with an identifier: neither missing nor empty
HasIdentifier(d) == d.identifier # None /\ d.identifier # << >>

\* the record kept for a doc: identifier, title, downloads, and the date,
\* which is the doc's date or else its publicdate
ParsedItem(d) ==
  [identifier |-> d.identifier,
   downloads |-> d.downloads,
   title |-> d.title,
   date |-> IF d.date # None /\ d.date # << >> THEN d.date ELSE d.publicdate]

\* C30: parsing a catalog page drops the docs without identifier (missing
\* or empty) and no other, and keeps the others in their order, each with
\* its identifier, title, downloads and date; these are the records shown
\* after a successful fetch.
C30_ParseDropsOnlyUnidentified ==
  LET kept == SelectSeq(payload, HasIdentifier)
      parsed == parse_items(payload)
  IN  /\ Len(parsed) = Len(kept)
      /\ \A i \in 1..Len(kept) : parsed[i] = ParsedItem(kept[i])
      /\ (/\ pc = "Results"
          /\ last.fetch = "search"
          /\ last.ok
          /\ Falsy(results_filter))
           => items = parsed

\* a fetched page with a doc whose identifier is empty and a doc that is kept
C30_Witness ==
  /\ pc = "Results"
  /\ last.fetch = "search"
  /\ last.ok
  /\ \E i \in 1..Len(payload) : payload[i].identifier = << >>
  /\ items # << >>
  /\ Len(items) < Len(payload)

\* C31: when the external downloader cannot be started, the failure is
\* reported, the download is given up and the session goes on in ItemFiles;
\* the process does not end with an exception.
C31_LaunchFailureIsReported ==
  [][ (pc = "FileAction" /\ last'.cmd = "d_exec")
      => /\ pc' = "ItemFiles"
         /\ rc' = "none"
         /\ dl' = "none"
         /\ msgs' # << >>
         /\ "OSError" \notin Said(msgs') ]_vars

\* C32: no resize notification is lost.  A notification that no screen clear
\* has followed yet leaves _NEEDS_REDRAW set, so that the next render clears
\* the screen; this holds wherever the notification arrives, between the
\* render's test of the flag and its clearing included.
C32_NoResizeLost == unserved => needs_redraw

\* C33: in Results every line the prompt recognises as a command letter (q,
\* n, p, r, s in either case) is handled by that command; no step taken from
\* the Results prompt is the indexing of the result list with a selection
\* that is still a string.
C33_RecognisedLettersDispatched ==
  [][ pc = "Results" => last'.cmd # "index_error" ]_vars

\* C34: at every Results prompt the records displayed are the records of the
\* payload fetched last, under the active results filter (all of them when no
\* filter is active), whatever commands and fetch failures came before.
C34_DisplayedIsFilterOfPayload ==
  pc = "Results" => items = FilterItems(parse_items(payload), results_filter)

\* C35: selecting, in Results, an item whose details are fetched and that has
\* files passing the startup filters (--ext, --file-contains) enters
\* ItemFiles, whatever file filter and file page earlier items left behind.
C35_SelectEntersItemFiles ==
  [][ ( /\ pc = "Results"
        /\ last'.cmd = "select"
        /\ last'.ok
        /\ FilesList(ItemDetails(items[last'.idx + 1].identifier),
                     cfg.ext, cfg.file_contains, None) # << >> )
      => pc' = "ItemFiles" ]_vars

\* C36: the hash action looks up on the secondary service only for a file
\* that has a SHA1 digest, and then with that SHA1 whatever --hash says; for
\* a file without SHA1 it makes no lookup, says so and returns to ItemFiles.
C36_HashLooksUpSha1Only ==
  [][ (pc = "FileAction" /\ last'.cmd = "a_hash")
      => IF Falsy(finfo.sha1)
         THEN /\ last'.fetch = "none"
              /\ pc' = "ItemFiles"
              /\ msgs' # << >>
              /\ "TypeError" \notin Said(msgs')
         ELSE /\ last'.fetch = "lookup"
              /\ last'.arg = finfo.sha1 ]_vars

====
